---------------------------- MODULE Spec2Model ----------------------------
(***************************************************************************)
(* The mail-merge wizard of EduMerge.py as a state machine.                *)
(*                                                                         *)
(* A state is a point where the program waits for the user: a modal dialog *)
(* is on screen (dialog), the Python call stack below the active function  *)
(* is stack (a sequence of return points named function:line), and the     *)
(* fields of the NameManager and Letter objects hold their values.  An     *)
(* action is the user's answer to the dialog together with all the code    *)
(* that runs until the next dialog is shown.  The dialog windows are       *)
(* frameless (overrideredirect), so a dialog closes only through one of    *)
(* its buttons; a file or directory chooser can also be cancelled, which   *)
(* returns the empty string.                                               *)
(*                                                                         *)
(* Strings are sequences of one-character strings, so that str.replace,    *)
(* str.split, str.find, str.title and str.isalpha are computed character   *)
(* by character as the interpreter does.                                   *)
(***************************************************************************)
EXTENDS Integers, Sequences, FiniteSets, TLC

(***************************************************************************)
(* Bounds of the model.                                                    *)
(***************************************************************************)
\* largest value the user types into the recipient-count spinbox
MaxCount == 3
\* largest number of suspended Python frames (return points) explored
MaxDepth == 5

\* the handlers of the editor one run goes through
MaxHandlers == 4

(***************************************************************************)
(* Characters and the str methods the wizard uses.                         *)
(***************************************************************************)
LowerCase ==
  << "a", "b", "c", "d", "e", "f", "g", "h", "i", "j", "k", "l", "m",
     "n", "o", "p", "q", "r", "s", "t", "u", "v", "w", "x", "y", "z" >>

UpperCase ==
  << "A", "B", "C", "D", "E", "F", "G", "H", "I", "J", "K", "L", "M",
     "N", "O", "P", "Q", "R", "S", "T", "U", "V", "W", "X", "Y", "Z" >>

IsLower(c) == \E i \in 1..26 : LowerCase[i] = c

IsUpper(c) == \E i \in 1..26 : UpperCase[i] = c

ToUpper(c) ==
  IF IsLower(c) THEN UpperCase[CHOOSE i \in 1..26 : LowerCase[i] = c] ELSE c

ToLower(c) ==
  IF IsUpper(c) THEN LowerCase[CHOOSE i \in 1..26 : UpperCase[i] = c] ELSE c

\* str.isalpha(): non-empty and every character a letter
isalpha(s) ==
  /\ Len(s) > 0
  /\ \A i \in 1..Len(s) : IsLower(s[i]) \/ IsUpper(s[i])

\* does s start with the string sub
StartsWith(s, sub) ==
  /\ Len(s) >= Len(sub)
  /\ SubSeq(s, 1, Len(sub)) = sub

\* str.find(sub): 0-based index of the first occurrence, -1 when absent
RECURSIVE FindFrom(_, _, _)
FindFrom(s, sub, k) ==
  IF k + Len(sub) > Len(s) THEN -1
  ELSE IF SubSeq(s, k + 1, k + Len(sub)) = sub THEN k
  ELSE FindFrom(s, sub, k + 1)

find(s, sub) == FindFrom(s, sub, 0)

\* the operator `sub in s`
contains(s, sub) == \E k \in 0..Len(s) : StartsWith(SubSeq(s, k + 1, Len(s)), sub)

\* str.replace(old, new) for a non-empty old: left-to-right, non-overlapping
RECURSIVE replace(_, _, _)
replace(s, old, new) ==
  IF Len(s) < Len(old) THEN s
  ELSE IF StartsWith(s, old)
       THEN new \o replace(SubSeq(s, Len(old) + 1, Len(s)), old, new)
       ELSE << s[1] >> \o replace(Tail(s), old, new)

\* str.split(sep) for a non-empty sep
RECURSIVE split(_, _)
split(s, sep) ==
  LET k == find(s, sep)
  IN  IF k < 0 THEN << s >>
      ELSE << SubSeq(s, 1, k) >> \o split(SubSeq(s, k + Len(sep) + 1, Len(s)), sep)

\* str.title(): a letter is upper-cased when the character before it is not
\* a letter, and lower-cased otherwise
RECURSIVE TitleFrom(_, _)
TitleFrom(s, previous_is_cased) ==
  IF s = << >> THEN << >>
  ELSE LET c == s[1]
       IN  IF IsLower(c) \/ IsUpper(c)
           THEN << IF previous_is_cased THEN ToLower(c) ELSE ToUpper(c) >>
                  \o TitleFrom(Tail(s), TRUE)
           ELSE << c >> \o TitleFrom(Tail(s), FALSE)

title(s) == TitleFrom(s, FALSE)

\* a validation that strips the spaces and forgets the hyphens
NameIsValidSpacesOnly(entered) ==
  isalpha(replace(entered, << " " >>, << >>))

\* the test of collect_names_manually on an entered name
NameIsValid(entered) ==
  isalpha(replace(replace(entered, << " " >>, << >>), << "-" >>, << >>))

Placeholder == << "[", "n", "a", "m", "e", "]" >>

Delimiter == << ",", " " >>

\* a format check that looks for the comma alone
HasDelimiterCommaOnly(names_content) == contains(names_content, << "," >>)

\* the format check of names_text_file_processing: ", " in names_content
HasDelimiter(names_content) == contains(names_content, Delimiter)

\* a parse that splits at the comma alone
NamesOfContentCommaOnly(names_content) == split(names_content, << "," >>)

\* the parse of names_text_file_processing: names_content.split(", ")
NamesOfContent(names_content) == split(names_content, Delimiter)

\* str.replace(old, new, 1)
ReplaceFirst(s, old, new) ==
  LET k == find(s, old)
  IN  IF k < 0 THEN s
      ELSE SubSeq(s, 1, k) \o new \o SubSeq(s, k + Len(old) + 1, Len(s))

\* a substitution that stops after the first placeholder
PersonalizedContentFirstOnly(body, recipient) ==
  ReplaceFirst(body, Placeholder, recipient)

\* personalized_content = self.letter_body.replace("[name]", recipient)
PersonalizedContent(body, recipient) == replace(body, Placeholder, recipient)


(***************************************************************************)
(* What the user can supply.  A file is named by its path; Disk gives what *)
(* open(path).read() returns, or that it raises.                           *)
(***************************************************************************)
S_Al == << "A", "l" >>

S_Old == << "o", "l", "d" >>

\* names typed into the StringBox of collect_names_manually
TypedNames ==
  { << "j", "e", "a", "n", "-", "p", "a", "u", "l" >>,
    << "a", "L" >>,
    << "b", "0", "b" >>,
    << "-", " " >>,
    << >> }

NamesFiles == { "names3.txt", "digits.txt", "single.txt", "comma.txt", "locked.txt" }

LetterFiles == { "letter.txt", "twice.txt", "plain.txt", "locked.txt" }

Disk ==
  [ p \in NamesFiles \cup LetterFiles |->
      CASE p = "names3.txt" ->
             [ readable |-> TRUE,
               content |-> << "A", "l", "i", "c", "e", ",", " ", "B", "o", "b",
                              ",", " ", "C", "a", "r", "o", "l" >> ]
        [] p = "digits.txt" ->
             [ readable |-> TRUE,
               content |-> << "a", "l", ",", " ", "b", "0", "b" >> ]
        [] p = "single.txt" ->
             [ readable |-> TRUE, content |-> S_Al ]
        [] p = "comma.txt" ->
             [ readable |-> TRUE, content |-> << "A", "l", ",", "B", "o" >> ]
        [] p = "letter.txt" ->
             [ readable |-> TRUE,
               content |-> << "H", "i", " " >> \o Placeholder \o << "!" >> ]
        [] p = "twice.txt" ->
             [ readable |-> TRUE,
               content |-> Placeholder \o << "[" >> \o Placeholder ]
        [] p = "plain.txt" ->
             [ readable |-> TRUE,
               content |-> << "D", "e", "a", "r", " ", "[", "n", "a", "m", "e" >> ]
        [] OTHER ->
             [ readable |-> FALSE, content |-> << >> ] ]

\* letters typed into the TextBox of process_letter_content
TypedLetters ==
  { << "T", "o", " " >> \o Placeholder,
    << "[", "N", "a", "m", "e", "]" >>,
    << >> }

\* directories askdirectory can return; "" is a cancelled chooser
Directories == { "", "fresh", "used", "full" }

FileName(recipient, suffix) == [ recipient |-> recipient, suffix |-> suffix ]

\* the letter files each directory holds before the wizard runs
InitialFiles(d) ==
  CASE d = "used" -> (FileName(S_Al, "") :> S_Old)
    [] d = "full" -> (FileName(S_Al, "") :> S_Old) @@ (FileName(S_Al, "(1)") :> S_Old)
    [] OTHER -> << >>

(***************************************************************************)
(* State.                                                                  *)
(***************************************************************************)
VARIABLES
  dialog,                     \* the dialog on screen, or done / exited / crashed / editor
  stack,                      \* return points of the suspended Python frames
  recipient_names,            \* NameManager.recipient_names
  name_input_method,          \* NameManager.name_input_method
  total_recipients,           \* NameManager.total_recipients
  name_prompt,                \* NameManager.name_prompt
  names_file_location,        \* NameManager.names_file_location
  remaining,                  \* iterations left of the for loop of the active collect_names_manually
  entered_name,               \* entered_name of collect_names_manually
  letter_body,                \* Letter.letter_body
  letter_file_location,       \* Letter.letter_file_location
  is_placeholder_not_present, \* Letter.is_placeholder_not_present
  output_directory,           \* Letter.output_directory
  position,                   \* index of the next recipient of the for loop of generate_personalized_letters
  fs,                         \* the letter files of every directory
  written,                    \* the writes of generate_personalized_letters so far
  choice,                     \* the last answer: a button, or the path a chooser returned
  message                     \* the message box shown by the last step, "" when none


name_manager_vars ==
  << recipient_names, name_input_method, total_recipients, name_prompt,
     names_file_location, remaining, entered_name >>

letter_vars ==
  << letter_body, letter_file_location, is_placeholder_not_present,
     output_directory, position, fs, written >>

\* the state of ModernEditorApp and of the files it opens and saves
VARIABLES
  text_area,                  \* the text widget from "1.0" to "end-1c"
  edit_modified,              \* the modified flag of the text widget
  filename,                   \* ModernEditorApp.filename
  is_saved,                   \* ModernEditorApp.is_saved
  current_file_type,          \* ModernEditorApp.current_file_type
  csv_data,                   \* ModernEditorApp.csv_data
  csv_headers,                \* ModernEditorApp.csv_headers
  editor_files,               \* the files the editor opens and saves
  images,                     \* ModernEditorApp.images
  tags,                       \* the characters every tag of the text widget is on
  selection,                  \* the characters from sel.first to sel.last
  handler,                    \* the handler of the editor that ran last, "" when none
  handled                     \* the number of handlers of the editor that have run

editor_vars ==
  << text_area, edit_modified, filename, is_saved, current_file_type,
     csv_data, csv_headers, editor_files, images, tags, selection, handler,
     handled >>

wizard_vars == << stack, name_manager_vars, letter_vars >>

(***************************************************************************)
(* The files of the editor and the conversions of reading and writing.     *)
(* A file is its kind and its content: the characters of a text file, the  *)
(* paragraphs of a Word document, nothing for a PDF.                       *)
(***************************************************************************)
None == "None"

LF == "\n"

CR == "\r"

\* os.linesep of the platform of logo.ico and os.startfile
linesep == << CR, LF >>

\* file.write(content) in text mode: "\n" is written as os.linesep
TextWritten(content) == replace(content, << LF >>, linesep)

\* file.read() in text mode: "\r\n" and "\r" are read as "\n"
RECURSIVE TextRead(_)
TextRead(bytes) ==
  IF bytes = << >> THEN << >>
  ELSE IF Head(bytes) = CR
  THEN << LF >> \o TextRead(IF Len(bytes) > 1 /\ bytes[2] = LF
                            THEN SubSeq(bytes, 3, Len(bytes))
                            ELSE Tail(bytes))
  ELSE << Head(bytes) >> \o TextRead(Tail(bytes))

\* list(csv.reader(file)) over the text read: the states of the reader
RECURSIVE CsvReader(_, _, _, _, _)
CsvReader(text, state, field, row, rows) ==
  IF text = << >>
  THEN IF state = "START_RECORD" THEN rows
       ELSE Append(rows, Append(row, field))
  ELSE
    LET c == Head(text)
        rest == Tail(text)
        end_record == CsvReader(rest, "START_RECORD", << >>, << >>,
                                Append(rows, Append(row, field)))
        end_field == CsvReader(rest, "START_FIELD", << >>,
                               Append(row, field), rows)
    IN  CASE state = "START_RECORD" /\ c = LF ->
               CsvReader(rest, "START_RECORD", << >>, << >>, Append(rows, << >>))
          [] state \in { "START_RECORD", "START_FIELD" } /\ c # LF ->
               IF c = "\"" THEN CsvReader(rest, "IN_QUOTED_FIELD", field, row, rows)
               ELSE IF c = "," THEN end_field
               ELSE CsvReader(rest, "IN_FIELD", Append(field, c), row, rows)
          [] state = "IN_QUOTED_FIELD" ->
               IF c = "\"" THEN CsvReader(rest, "QUOTE_IN_QUOTED_FIELD", field, row, rows)
               ELSE CsvReader(rest, "IN_QUOTED_FIELD", Append(field, c), row, rows)
          [] state = "QUOTE_IN_QUOTED_FIELD" /\ c = "\"" ->
               CsvReader(rest, "IN_QUOTED_FIELD", Append(field, c), row, rows)
          [] OTHER ->
               \* START_FIELD at a line end, IN_FIELD, or after a closing quote
               IF c = LF THEN end_record
               ELSE IF c = "," THEN end_field
               ELSE CsvReader(rest, "IN_FIELD", Append(field, c), row, rows)

csv_reader(bytes) == CsvReader(TextRead(bytes), "START_RECORD", << >>, << >>, << >>)

\* a cell as csv.writer writes it: quoted when it holds a delimiter, a quote
\* or a line end, or when it is the empty only cell of its row
CsvCell(cell, cells) ==
  IF \/ \E i \in 1..Len(cell) : cell[i] \in { ",", "\"", CR, LF }
     \/ cell = << >> /\ cells = 1
  THEN << "\"" >> \o replace(cell, << "\"" >>, << "\"", "\"" >>) \o << "\"" >>
  ELSE cell

RECURSIVE CsvCells(_, _)
CsvCells(row, k) ==
  IF k > Len(row) THEN << >>
  ELSE (IF k > 1 THEN << "," >> ELSE << >>)
         \o CsvCell(row[k], Len(row)) \o CsvCells(row, k + 1)

\* csv.writer(file).writerows(rows) into a file opened with newline=''
RECURSIVE writerows(_)
writerows(rows) ==
  IF rows = << >> THEN << >>
  ELSE CsvCells(Head(rows), 1) \o << CR, LF >> \o writerows(Tail(rows))

\* str.strip() leaves nothing of a line of these characters
Whitespace == { " ", "\t", LF, CR }

Stripped(line) == \E i \in 1..Len(line) : line[i] \notin Whitespace

NotEmpty(line) == line # << >>

\* an export that skips the empty lines only
ParagraphsAddedNotEmpty(content) == SelectSeq(split(content, << LF >>), NotEmpty)

\* the paragraphs save_as_docx adds: the lines that line.strip() keeps
ParagraphsAdded(content) == SelectSeq(split(content, << LF >>), Stripped)

\* the text open_docx inserts: para.text + "\n" for every paragraph
RECURSIVE ParagraphsInserted(_)
ParagraphsInserted(paragraphs) ==
  IF paragraphs = << >> THEN << >>
  ELSE Head(paragraphs) \o << LF >> \o ParagraphsInserted(Tail(paragraphs))

EditorPaths ==
  { "notes.txt", "table.csv", "empty.csv", "report.docx", "paper.pdf",
    "locked.txt" }

\* os.path.splitext(filepath)[1].lower()
ext(filepath) ==
  CASE filepath \in { "table.csv", "empty.csv" } -> ".csv"
    [] filepath = "report.docx" -> ".docx"
    [] filepath = "paper.pdf" -> ".pdf"
    [] OTHER -> ".txt"

\* the paths open() refuses for reading and for writing
Locked == { "locked.txt" }

TextFile(bytes) == [ kind |-> "text", content |-> bytes ]

DocxFile(paragraphs) == [ kind |-> "docx", content |-> paragraphs ]

PdfFile == [ kind |-> "pdf", content |-> << >> ]

\* the files before the editor starts
InitialEditorFiles(filepath) ==
  CASE filepath = "notes.txt" -> TextFile(<< "h", "i", CR, LF, "y", "o" >>)
    [] filepath = "table.csv" ->
         TextFile(<< "h", ",", "k", LF,
                     "\"", "a", ",", "b", "\"", ",", "x", LF >>)
    [] filepath = "report.docx" -> DocxFile(<< << "p" >>, << "q", " " >> >>)
    [] filepath = "paper.pdf" -> PdfFile
    [] OTHER -> TextFile(<< >>)

\* the tags create_text_editor_tab configures
ConfiguredTags ==
  { "bold", "italic", "underline", "heading1", "heading2", "heading3" }

\* a deletion that leaves the configured tags only
DeletedToConfigured(tagged) == [ tag \in ConfiguredTags |-> { } ]

\* the tags after every character of the widget is deleted: a tag stays
\* defined, on no character
Deleted(tagged) == [ tag \in DOMAIN tagged |-> { } ]

\* ModernEditorApp.__init__
EditorConstructed ==
  /\ text_area = << >>
  /\ edit_modified = FALSE
  /\ filename = None
  /\ is_saved = TRUE
  /\ current_file_type = "text"
  /\ csv_data = << >>
  /\ csv_headers = << >>
  /\ editor_files = [ filepath \in EditorPaths |-> InitialEditorFiles(filepath) ]
  /\ images = << >>
  /\ tags = [ tag \in ConfiguredTags |-> { } ]
  /\ selection = { }
  /\ handler = ""
  /\ handled = 0


vars ==
  << dialog, stack, recipient_names, name_input_method, total_recipients,
     name_prompt, names_file_location, remaining, entered_name, letter_body,
     letter_file_location, is_placeholder_not_present, output_directory,
     position, fs, written, choice, message, text_area, edit_modified,
     filename, is_saved, current_file_type, csv_data, csv_headers,
     editor_files, images, tags, selection, handler, handled >>

Init ==
  /\ dialog = "start"
  /\ stack = << >>
  /\ recipient_names = << >>
  /\ name_input_method = ""
  /\ total_recipients = 0
  /\ name_prompt = "Please enter the name:"
  /\ names_file_location = ""
  /\ remaining = 0
  /\ entered_name = << >>
  /\ letter_body = << >>
  /\ letter_file_location = ""
  /\ is_placeholder_not_present = FALSE
  /\ output_directory = ""
  /\ position = 1
  /\ fs = [ d \in Directories |-> InitialFiles(d) ]
  /\ written = << >>
  /\ choice = ""
  /\ message = ""
  /\ EditorConstructed

(***************************************************************************)
(* Returning.  The active function has returned; the frames of stack are   *)
(* resumed from the top until one of them shows a dialog.  The result is   *)
(* the dialog shown, the stack below it and the loop counter of            *)
(* collect_names_manually.                                                 *)
(***************************************************************************)
Push(stk, return_point) == Append(stk, return_point)

\* a loop that forgets the names already collected: range(total_recipients)
RangeOfCollectTotal(total, names) == total

\* entry of collect_names_manually: range(total_recipients - len(recipient_names))
RangeOfCollect(total, names) ==
  IF total - Len(names) > 0 THEN total - Len(names) ELSE 0

RECURSIVE Resume(_, _, _, _)
Resume(stk, names, total, rem) ==
  IF stk = << >>
  THEN [ dialog |-> "done", stack |-> << >>, remaining |-> rem ]
  ELSE
    LET top == stk[Len(stk)]
        rest == SubSeq(stk, 1, Len(stk) - 1)
    IN  CASE top = "main:1895" ->
               [ dialog |-> "start", stack |-> rest, remaining |-> rem ]
          [] top = "main:1902" ->
               [ dialog |-> "letter_choice", stack |-> Push(rest, "main:1905"),
                 remaining |-> rem ]
          [] top = "name_collection:1667" ->
               IF RangeOfCollect(total, names) > 0
               THEN [ dialog |-> "name",
                      stack |-> Push(rest, "name_collection:1668"),
                      remaining |-> RangeOfCollect(total, names) ]
               ELSE Resume(Push(rest, "name_collection:1668"), names, total, 0)
          [] top \in { "name_collection:1668", "name_collection:1671",
                       "name_collection:1674" } ->
               [ dialog |-> "confirm",
                 stack |-> Push(rest, "name_collection:1677"),
                 remaining |-> rem ]
          [] top = "ask_recipient_count:1692" ->
               IF total >= 2
               THEN Resume(rest, names, total, rem)
               ELSE [ dialog |-> "count", stack |-> rest, remaining |-> rem ]
          [] top = "ask_name_file:1740" ->
               [ dialog |-> "names_file", stack |-> rest, remaining |-> rem ]
          [] OTHER ->
               Resume(rest, names, total, rem)


Fits(stk) == Len(stk) <= MaxDepth

Below(stk) == SubSeq(stk, 1, Len(stk) - 1)

Top(stk) == stk[Len(stk)]

\* the dialog, stack and loop counter after the active function returns
ReturnTo(stk, names, total, rem) ==
  LET r == Resume(stk, names, total, rem)
  IN  /\ dialog' = r.dialog
      /\ stack' = r.stack
      /\ remaining' = r.remaining

(***************************************************************************)
(* The main selection loop.                                                *)
(***************************************************************************)
StartingWindow ==
  /\ dialog = "start"
  /\ UNCHANGED editor_vars
  /\ \E software_choice \in { "Mail Merge", "Text Editor", "Exit" } :
       /\ choice' = software_choice
       /\ CASE software_choice = "Mail Merge" ->
                 \* name_manager.name_collection()
                 /\ dialog' = "method"
                 /\ stack' = Push(stack, "main:1902")
            [] software_choice = "Text Editor" ->
                 /\ dialog' = "editor"
                 /\ stack' = stack
            [] OTHER ->
                 /\ dialog' = "exit"
                 /\ stack' = Push(stack, "main:1895")
  /\ message' = ""
  /\ UNCHANGED << name_manager_vars, letter_vars >>

(***************************************************************************)
(* NameManager.                                                            *)
(***************************************************************************)
name_collection ==
  /\ dialog = "method"
  /\ UNCHANGED editor_vars
  /\ \E button \in { "Manual Insert", "Text File", "Exit" } :
       /\ choice' = button
       /\ name_input_method' = button
       /\ CASE button = "Manual Insert" ->
                 \* self.ask_recipient_count()
                 /\ dialog' = "count"
                 /\ stack' = Push(stack, "name_collection:1667")
            [] button = "Text File" ->
                 \* self.names_text_file_processing(), which calls ask_name_file
                 /\ dialog' = "names_file"
                 /\ stack' = Push(Push(stack, "name_collection:1671"),
                                  "names_text_file_processing:1751")
            [] OTHER ->
                 /\ dialog' = "exit"
                 /\ stack' = Push(stack, "name_collection:1674")
       /\ names_file_location' =
            IF button = "Text File" THEN "" ELSE names_file_location
  /\ Fits(stack')
  /\ message' = ""
  /\ UNCHANGED << recipient_names, total_recipients, name_prompt, remaining,
                  entered_name, letter_vars >>

ask_recipient_count ==
  /\ dialog = "count"
  /\ UNCHANGED editor_vars
  /\ \E value \in 0..MaxCount, button \in { "Continue", "Exit" } :
       /\ choice' = button
       /\ IF button = "Exit"
          THEN /\ total_recipients' = 0
               /\ dialog' = "exit"
               /\ stack' = Push(stack, "ask_recipient_count:1692")
               /\ remaining' = remaining
          ELSE /\ total_recipients' = value
               /\ IF value >= 2
                  THEN ReturnTo(stack, recipient_names, value, remaining)
                  ELSE /\ dialog' = "count"
                       /\ stack' = stack
                       /\ remaining' = remaining
  /\ Fits(stack')
  /\ message' = ""
  /\ UNCHANGED << recipient_names, name_input_method, name_prompt,
                  names_file_location, entered_name, letter_vars >>

collect_names_manually ==
  /\ dialog = "name"
  /\ UNCHANGED editor_vars
  /\ \E entered \in TypedNames, button \in { "Continue", "Exit" } :
       /\ choice' = button
       /\ entered_name' = entered
       /\ IF button = "Exit"
          THEN /\ dialog' = "exit"
               /\ stack' = Push(stack, "collect_names_manually:1714")
               /\ UNCHANGED << recipient_names, name_prompt, remaining >>
          ELSE IF NameIsValid(entered)
          THEN /\ name_prompt' = "Please enter the name:"
               /\ recipient_names' = Append(recipient_names, title(entered))
               /\ IF remaining > 1
                  THEN /\ dialog' = "name"
                       /\ stack' = stack
                       /\ remaining' = remaining - 1
                  ELSE ReturnTo(stack, recipient_names', total_recipients, 0)
          ELSE /\ name_prompt' = "Please enter a valid name:"
               /\ UNCHANGED << dialog, stack, recipient_names, remaining >>
  /\ Fits(stack')
  /\ message' = ""
  /\ UNCHANGED << name_input_method, total_recipients, names_file_location,
                  letter_vars >>

\* one turn of the loop of names_text_file_processing, ask_name_file included
names_text_file_processing ==
  /\ dialog = "names_file"
  /\ UNCHANGED editor_vars
  /\ \E location \in NamesFiles \cup { "" } :
       IF location = ""
       THEN \* chooser cancelled: exit_confirmation() from ask_name_file
            /\ choice' = ""
            /\ names_file_location' = ""
            /\ dialog' = "exit"
            /\ stack' = Push(stack, "ask_name_file:1740")
            /\ message' = ""
            /\ UNCHANGED << recipient_names, remaining >>
       ELSE /\ choice' = location
            /\ IF ~ Disk[location].readable
               THEN \* except Exception: warning, self.name_collection(), return
                    /\ names_file_location' = location
                    /\ message' = "Error occurred"
                    /\ dialog' = "method"
                    /\ stack' = Push(Below(stack), "names_text_file_processing:1764")
                    /\ UNCHANGED << recipient_names, remaining >>
               ELSE IF ~ HasDelimiter(Disk[location].content)
               THEN \* warning, next turn of the loop: ask_name_file again
                    /\ names_file_location' = ""
                    /\ message' = "Please enter the names separated by comma."
                    /\ UNCHANGED << dialog, stack, recipient_names, remaining >>
               ELSE /\ names_file_location' = location
                    /\ message' = ""
                    /\ recipient_names' = NamesOfContent(Disk[location].content)
                    /\ ReturnTo(Below(stack), recipient_names', total_recipients,
                                remaining)
  /\ Fits(stack')
  /\ UNCHANGED << name_input_method, total_recipients, name_prompt,
                  entered_name, letter_vars >>

\* a re-entry that keeps the names that were shown
NamesToReenterKept(names) == names

\* Re-enter Names: self.recipient_names = []
NamesToReenter(names) == << >>

confirm_names_proceed ==
  /\ dialog = "confirm"
  /\ UNCHANGED editor_vars
  /\ \E confirmation_choice \in { "Continue", "Re-enter Names", "Exit" } :
       /\ choice' = confirmation_choice
       /\ CASE confirmation_choice = "Continue" ->
                 /\ recipient_names' = recipient_names
                 /\ ReturnTo(stack, recipient_names, total_recipients, remaining)
            [] confirmation_choice = "Re-enter Names" ->
                 /\ recipient_names' = NamesToReenter(recipient_names)
                 /\ dialog' = "method"
                 /\ stack' = Push(stack, "confirm_names_proceed:1805")
                 /\ remaining' = remaining
            [] OTHER ->
                 /\ recipient_names' = recipient_names
                 /\ dialog' = "exit"
                 /\ stack' = Push(stack, "confirm_names_proceed:1809")
                 /\ remaining' = remaining
  /\ Fits(stack')
  /\ message' = ""
  /\ UNCHANGED << name_input_method, total_recipients, name_prompt,
                  names_file_location, entered_name, letter_vars >>


(***************************************************************************)
(* The exit confirmation.  The return point on top of the stack is the     *)
(* call site, which tells the two functions (and the callback) apart.      *)
(***************************************************************************)
CallbackSites ==
  { "collect_names_manually:1714", "process_letter_content:1558",
    "process_letter_content:1592" }

\* exit(): SystemExit unwinds every frame
Exit ==
  /\ dialog' = "exited"
  /\ stack' = << >>
  /\ remaining' = remaining

show_exit_confirmation ==
  /\ dialog = "exit"
  /\ UNCHANGED editor_vars
  /\ Top(stack) \in CallbackSites
  /\ \E user_choice \in { "Yes", "No" } :
       /\ choice' = user_choice
       /\ IF user_choice = "Yes"
          THEN Exit
          ELSE IF Top(stack) = "collect_names_manually:1714"
          THEN \* callback_function() is collect_names_manually
               IF RangeOfCollect(total_recipients, recipient_names) > 0
               THEN /\ dialog' = "name"
                    /\ stack' = Push(stack, "show_exit_confirmation:1846")
                    /\ remaining' = RangeOfCollect(total_recipients, recipient_names)
               ELSE ReturnTo(stack, recipient_names, total_recipients, 0)
          ELSE \* callback_function() is process_letter_content
               /\ dialog' = "letter_choice"
               /\ stack' = Push(stack, "show_exit_confirmation:1846")
               /\ remaining' = remaining
  /\ Fits(stack')
  /\ message' = ""
  /\ UNCHANGED << recipient_names, name_input_method, total_recipients,
                  name_prompt, names_file_location, entered_name, letter_vars >>

exit_confirmation ==
  /\ dialog = "exit"
  /\ UNCHANGED editor_vars
  /\ Top(stack) \notin CallbackSites
  /\ \E user_choice \in { "Yes", "No" } :
       /\ choice' = user_choice
       /\ IF user_choice = "Yes"
          THEN Exit
          ELSE ReturnTo(stack, recipient_names, total_recipients, remaining)
  /\ Fits(stack')
  /\ message' = ""
  /\ UNCHANGED << recipient_names, name_input_method, total_recipients,
                  name_prompt, names_file_location, entered_name, letter_vars >>

(***************************************************************************)
(* Letter.                                                                 *)
(***************************************************************************)
\* a validation that searches for the word without its brackets
PlaceholderMissingNoBrackets(body) == find(body, << "n", "a", "m", "e" >>) < 0

\* validation of the placeholder: name_place = letter_body.find("[name]")
PlaceholderMissing(body) == find(body, Placeholder) < 0

\* the end of both branches of process_letter_content, after letter_body is set
ValidateAndGenerate(body, warning, retry_site, generate_site) ==
  IF PlaceholderMissing(body)
  THEN /\ is_placeholder_not_present' = TRUE
       /\ message' = warning
       /\ dialog' = "letter_choice"
       /\ stack' = Push(stack, retry_site)
  ELSE /\ is_placeholder_not_present' = FALSE
       /\ message' = ""
       /\ dialog' = "out_prompt"
       /\ stack' = Push(stack, generate_site)

process_letter_content ==
  /\ dialog = "letter_choice"
  /\ UNCHANGED editor_vars
  /\ \E file_input_choice \in { "Browse", "Type Letter Content" } :
       /\ choice' = file_input_choice
       /\ dialog' = IF file_input_choice = "Browse" THEN "letter_file"
                                                    ELSE "letter_text"
  /\ message' = "Make sure that you've entered the [name] placeholder in your letter"
  /\ UNCHANGED << stack, name_manager_vars, letter_vars >>

process_letter_content_browse ==
  /\ dialog = "letter_file"
  /\ UNCHANGED editor_vars
  /\ \E location \in LetterFiles \cup { "" } :
       /\ letter_file_location' = location
       /\ IF location = ""
          THEN /\ choice' = ""
               /\ dialog' = "exit"
               /\ stack' = Push(stack, "process_letter_content:1558")
               /\ message' = ""
               /\ UNCHANGED << letter_body, is_placeholder_not_present >>
          ELSE /\ choice' = location
               /\ IF ~ Disk[location].readable
                  THEN \* open() raises and nothing catches it
                       /\ dialog' = "crashed"
                       /\ stack' = << >>
                       /\ message' = ""
                       /\ UNCHANGED << letter_body, is_placeholder_not_present >>
                  ELSE /\ letter_body' = Disk[location].content
                       /\ ValidateAndGenerate(letter_body',
                                              "Warning: Placeholder '[name]' not present in file.",
                                              "process_letter_content:1575",
                                              "process_letter_content:1579")
  /\ Fits(stack')
  /\ UNCHANGED << name_manager_vars, output_directory, position, fs, written >>

process_letter_content_type ==
  /\ dialog = "letter_text"
  /\ UNCHANGED editor_vars
  /\ \E text \in TypedLetters, continue_choice \in { "Continue", "Exit" } :
       /\ choice' = continue_choice
       /\ letter_body' = text
       /\ IF continue_choice = "Exit"
          THEN /\ dialog' = "exit"
               /\ stack' = Push(stack, "process_letter_content:1592")
               /\ message' = ""
               /\ UNCHANGED is_placeholder_not_present
          ELSE IF continue_choice = ""
          THEN /\ dialog' = "letter_choice"
               /\ stack' = Push(stack, "process_letter_content:1601")
               /\ message' = "The letter is empty, please try again."
               /\ UNCHANGED is_placeholder_not_present
          ELSE ValidateAndGenerate(text,
                                   "Warning: Placeholder '[name]' is not in the letter body",
                                   "process_letter_content:1617",
                                   "process_letter_content:1621")
  /\ Fits(stack')
  /\ UNCHANGED << name_manager_vars, letter_file_location, output_directory,
                  position, fs, written >>

\* the prompt that opens generate_personalized_letters; its result is not read
generate_personalized_letters_prompt ==
  /\ dialog = "out_prompt"
  /\ UNCHANGED editor_vars
  /\ \E button \in { "Continue", "Exit" } : choice' = button
  /\ dialog' = "out_dir"
  /\ message' = ""
  /\ UNCHANGED << stack, name_manager_vars, letter_vars >>

\* filedialog.askdirectory, then the for loop starts
generate_personalized_letters_askdirectory ==
  /\ dialog = "out_dir"
  /\ UNCHANGED editor_vars
  /\ \E directory \in Directories :
       /\ output_directory' = directory
       /\ choice' = directory
  /\ position' = 1
  /\ written' = << >>
  /\ dialog' = IF recipient_names = << >> THEN "success" ELSE "writing"
  /\ message' = ""
  /\ UNCHANGED << stack, name_manager_vars, letter_body, letter_file_location,
                  is_placeholder_not_present, fs >>

\* the file the loop body opens for writing
OutputFile(files, recipient) ==
  IF FileName(recipient, "") \in DOMAIN files
  THEN FileName(recipient, "(1)")
  ELSE FileName(recipient, "")

\* open(path, "w") and write(content)
WriteFile(files, file, content) ==
  [ f \in DOMAIN files \cup { file } |-> IF f = file THEN content ELSE files[f] ]

\* one iteration of the for loop of generate_personalized_letters
generate_personalized_letters_write ==
  /\ dialog = "writing"
  /\ UNCHANGED editor_vars
  /\ LET recipient == recipient_names[position]
         output_file == OutputFile(fs[output_directory], recipient)
         personalized_content == PersonalizedContent(letter_body, recipient)
     IN  /\ fs' = [ fs EXCEPT ![output_directory] =
                      WriteFile(@, output_file, personalized_content) ]
         /\ written' = Append(written, [ recipient |-> recipient,
                                         file |-> output_file,
                                         content |-> personalized_content ])
  /\ position' = position + 1
  /\ dialog' = IF position' > Len(recipient_names) THEN "success" ELSE "writing"
  /\ choice' = ""
  /\ message' = ""
  /\ UNCHANGED << stack, name_manager_vars, letter_body, letter_file_location,
                  is_placeholder_not_present, output_directory >>

\* the success box, the folder is opened, and the function returns
generate_personalized_letters_success ==
  /\ dialog = "success"
  /\ UNCHANGED editor_vars
  /\ choice' = "Exit"
  /\ ReturnTo(stack, recipient_names, total_recipients, remaining)
  /\ message' = ""
  /\ UNCHANGED << recipient_names, name_input_method, total_recipients,
                  name_prompt, names_file_location, entered_name, letter_vars >>

(***************************************************************************)
(* The copies of Letter.generate_personalized_letters in merger.py and     *)
(* textEditor.py.  Every open() of their loop has mode "r".  The result is *)
(* the files the loop leaves and the exception that ended it, "" when the  *)
(* loop came to its end.                                                   *)
(***************************************************************************)
\* one iteration: the exception the body raises for the recipient
RaisedByReadMode(files, recipient) ==
  IF FileName(recipient, "") \in DOMAIN files
  THEN \* "(1)" opened with "r": write() on it is refused; when it is missing
       \* the except branch opens the letter with "r" and write() is refused
       "UnsupportedOperation"
  ELSE \* the except branch opens the missing letter with "r" again
       "FileNotFoundError"

RECURSIVE LettersOfReadMode(_, _)
LettersOfReadMode(files, names) ==
  IF names = << >> THEN [ files |-> files, exception |-> "" ]
  ELSE IF RaisedByReadMode(files, Head(names)) # ""
  THEN [ files |-> files, exception |-> RaisedByReadMode(files, Head(names)) ]
  ELSE LettersOfReadMode(files, Tail(names))

\* merger.py
merger_generate_personalized_letters(files, names) ==
  LettersOfReadMode(files, names)

\* textEditor.py
textEditor_generate_personalized_letters(files, names) ==
  LettersOfReadMode(files, names)

Next ==
  \/ StartingWindow
  \/ name_collection
  \/ ask_recipient_count
  \/ collect_names_manually
  \/ names_text_file_processing
  \/ confirm_names_proceed
  \/ show_exit_confirmation
  \/ exit_confirmation
  \/ process_letter_content
  \/ process_letter_content_browse
  \/ process_letter_content_type
  \/ generate_personalized_letters_prompt
  \/ generate_personalized_letters_askdirectory
  \/ generate_personalized_letters_write
  \/ generate_personalized_letters_success

Spec == Init /\ [][Next]_vars

(***************************************************************************)
(* ModernEditorApp.  Every handler is one step; a chooser or a prompt a    *)
(* handler shows is answered within the step.  A change of the text sets   *)
(* the modified flag of the widget, and the <<Modified>> event this queues *)
(* is handled by on_text_change before the next handler runs.              *)
(***************************************************************************)
\* the texts the user leaves in the text widget by typing and pasting
TypedTexts ==
  { << "a", LF, " ", LF, LF, "b" >>,
    << "a", CR, "b" >> }

\* the paths asksaveasfilename can return; "" is a cancelled chooser
SavePaths == { "notes.txt", "table.csv", "report.docx", "locked.txt" }

\* the modified flag after the widget content is replaced: deleting or
\* inserting any character sets it
Modified(old, new) == edit_modified \/ old # << >> \/ new # << >>

\* what save_file writes: the file is chosen by current_file_type
FileWritten ==
  CASE current_file_type = "csv" -> TextFile(writerows(csv_data))
    [] current_file_type = "docx" -> DocxFile(ParagraphsAdded(text_area))
    [] OTHER -> TextFile(TextWritten(text_area))

\* the try block of save_file for the path in self.filename
Saved(path) ==
  IF path \in Locked
  THEN IF current_file_type = "docx"
       THEN \* save_as_docx shows its own error and returns normally
            [ filename |-> path, files |-> editor_files, is_saved |-> TRUE,
              message |-> "File saved successfully!" ]
       ELSE [ filename |-> path, files |-> editor_files, is_saved |-> is_saved,
              message |-> "Could not save file" ]
  ELSE [ filename |-> path,
         files |-> [ editor_files EXCEPT ![path] = FileWritten ],
         is_saved |-> TRUE,
         message |-> "File saved successfully!" ]

\* save_as_file, the chooser answering filepath
SavedAs(filepath) ==
  IF filepath = ""
  THEN [ filename |-> filename, files |-> editor_files, is_saved |-> is_saved,
         message |-> "" ]
  ELSE Saved(filepath)

\* save_file; filepath is the answer of the chooser save_as_file shows
\* when there is no file name
SavedFile(filepath) ==
  IF filename # None THEN Saved(filename) ELSE SavedAs(filepath)

\* the answers a save can get from the chooser
SaveAnswers == IF filename # None THEN { "" } ELSE SavePaths \cup { "" }

\* the event loop takes the next event of the user
Dispatch ==
  /\ dialog = "editor"
  /\ ~ edit_modified
  /\ handled < MaxHandlers
  /\ handled' = handled + 1

Idle ==
  /\ Dispatch
  /\ UNCHANGED << dialog, wizard_vars >>

\* the user types in the text widget
type_text ==
  /\ Idle
  /\ \E text \in TypedTexts :
       /\ text # text_area
       /\ text_area' = text
  /\ edit_modified' = TRUE
  /\ tags' = Deleted(tags)
  /\ selection' = { }
  /\ handler' = "type_text"
  /\ choice' = ""
  /\ message' = ""
  /\ UNCHANGED << filename, is_saved, current_file_type, csv_data, csv_headers,
                  editor_files, images >>

on_text_change ==
  /\ dialog = "editor"
  /\ edit_modified
  /\ is_saved' = FALSE
  /\ edit_modified' = FALSE
  /\ UNCHANGED << dialog, wizard_vars, text_area, filename, current_file_type,
                  csv_data, csv_headers, editor_files, images, tags,
                  selection, handler, handled, choice, message >>

create_csv_table ==
  /\ Idle
  /\ current_file_type' = "csv"
  /\ handler' = "create_csv_table"
  /\ choice' = ""
  /\ message' = ""
  /\ UNCHANGED << text_area, edit_modified, filename, is_saved, csv_data,
                  csv_headers, editor_files, images, tags, selection >>



\* the editor state a handler of open_file leaves
Loaded(text, type, data, headers, box) ==
  [ text_area |-> text, current_file_type |-> type, csv_data |-> data,
    csv_headers |-> headers, message |-> box ]

NotLoaded(box) ==
  Loaded(text_area, current_file_type, csv_data, csv_headers, box)

\* open(filepath, "r", encoding="utf-8") and read() succeed
ReadsAsText(filepath) ==
  /\ filepath \notin Locked
  /\ editor_files[filepath].kind = "text"

open_csv(filepath) ==
  IF ~ ReadsAsText(filepath) THEN NotLoaded("Could not open CSV")
  ELSE LET rows == csv_reader(editor_files[filepath].content)
       IN  IF rows # << >>
           THEN Loaded(text_area, "csv", rows, rows[1], "")
           ELSE Loaded(text_area, current_file_type, rows, csv_headers, "")

open_docx(filepath) ==
  IF filepath \in Locked \/ editor_files[filepath].kind # "docx"
  THEN NotLoaded("Could not open DOCX")
  ELSE Loaded(ParagraphsInserted(editor_files[filepath].content), "docx",
              csv_data, csv_headers, "")

\* pages is whether convert_from_path returned the pages of the file
open_pdf(filepath, pages) ==
  IF pages THEN Loaded(text_area, "pdf", csv_data, csv_headers, "")
  ELSE NotLoaded("Could not open PDF")

\* the else branch of open_file: the file is read as plain text
open_text(filepath) ==
  IF ~ ReadsAsText(filepath) THEN NotLoaded("Could not open file")
  ELSE Loaded(TextRead(editor_files[filepath].content), "text", csv_data,
              csv_headers, "")

\* convert_from_path can return pages only for a PDF file that can be
\* read, and fails when pdf2image or poppler is missing
PagesOf(filepath) ==
  IF filepath \notin Locked /\ editor_files[filepath].kind = "pdf"
  THEN { TRUE, FALSE }
  ELSE { FALSE }

\* open_docx and the text branch delete the widget content and insert
\* the content of the file
Replaced(filepath, loaded) ==
  ext(filepath) \in { ".docx", ".txt" } /\ loaded.message = ""

open_file ==
  /\ Idle
  /\ \E filepath \in EditorPaths \cup { "" } :
       /\ choice' = filepath
       /\ IF filepath = ""
          THEN /\ message' = ""
               /\ UNCHANGED << text_area, edit_modified, filename, is_saved,
                               current_file_type, csv_data, csv_headers,
                               images, tags, selection >>
          ELSE \E pages \in PagesOf(filepath) :
                 LET loaded == CASE ext(filepath) = ".csv" -> open_csv(filepath)
                                 [] ext(filepath) = ".docx" -> open_docx(filepath)
                                 [] ext(filepath) = ".pdf" -> open_pdf(filepath, pages)
                                 [] OTHER -> open_text(filepath)
                 IN  /\ filename' = filepath
                     /\ text_area' = loaded.text_area
                     /\ edit_modified' =
                          IF Replaced(filepath, loaded)
                          THEN Modified(text_area, loaded.text_area)
                          ELSE edit_modified
                     /\ current_file_type' = loaded.current_file_type
                     /\ csv_data' = loaded.csv_data
                     /\ csv_headers' = loaded.csv_headers
                     /\ message' = loaded.message
                     /\ images' = IF ext(filepath) = ".pdf" /\ loaded.message = ""
                                  THEN Append(images, filepath) ELSE images
                     /\ tags' = IF Replaced(filepath, loaded)
                                THEN Deleted(tags) ELSE tags
                     /\ selection' = IF Replaced(filepath, loaded)
                                     THEN { } ELSE selection
                     /\ is_saved' = TRUE
  /\ handler' = "open_file"
  /\ UNCHANGED editor_files

save_file ==
  /\ Idle
  /\ \E filepath \in SaveAnswers :
       LET saved == SavedFile(filepath)
       IN  /\ choice' = filepath
           /\ filename' = saved.filename
           /\ editor_files' = saved.files
           /\ is_saved' = saved.is_saved
           /\ message' = saved.message
  /\ handler' = "save_file"
  /\ UNCHANGED << text_area, edit_modified, current_file_type, csv_data,
                  csv_headers, images, tags, selection >>

save_as_file ==
  /\ Idle
  /\ \E filepath \in SavePaths \cup { "" } :
       LET saved == SavedAs(filepath)
       IN  /\ choice' = filepath
           /\ filename' = saved.filename
           /\ editor_files' = saved.files
           /\ is_saved' = saved.is_saved
           /\ message' = saved.message
  /\ handler' = "save_as_file"
  /\ UNCHANGED << text_area, edit_modified, current_file_type, csv_data,
                  csv_headers, images, tags, selection >>

\* save_as_docx: the document is saved, or the error is shown
save_as_docx(filepath) ==
  IF filepath \in Locked THEN editor_files
  ELSE [ editor_files EXCEPT ![filepath] = DocxFile(ParagraphsAdded(text_area)) ]

export_to_docx ==
  /\ Idle
  /\ \E filepath \in { "report.docx", "locked.txt", "" } :
       /\ choice' = filepath
       /\ IF filepath = ""
          THEN /\ message' = ""
               /\ UNCHANGED editor_files
          ELSE /\ editor_files' = save_as_docx(filepath)
               /\ message' = "Exported to DOCX successfully!"
  /\ handler' = "export_to_docx"
  /\ UNCHANGED << text_area, edit_modified, filename, is_saved,
                  current_file_type, csv_data, csv_headers, images, tags,
                  selection >>

\* the files the image chooser can return; "" is a cancelled chooser
ImagePaths == { "photo.png", "notes.txt", "" }

\* Image.open reads the file as an image
OpensAsImage(filepath) == filepath = "photo.png"

\* the insertion cursor is at the end of the text
insert_image ==
  /\ Idle
  /\ \E filepath \in ImagePaths :
       /\ choice' = filepath
       /\ IF filepath = ""
          THEN /\ message' = ""
               /\ UNCHANGED << text_area, edit_modified, is_saved, images >>
          ELSE IF OpensAsImage(filepath)
          THEN /\ images' = Append(images, filepath)
               /\ text_area' = Append(text_area, LF)
               /\ edit_modified' = TRUE
               /\ is_saved' = FALSE
               /\ message' = ""
          ELSE /\ message' = "Could not insert image"
               /\ UNCHANGED << text_area, edit_modified, is_saved, images >>
  /\ handler' = "insert_image"
  /\ UNCHANGED << filename, current_file_type, csv_data, csv_headers,
                  editor_files, tags, selection >>

\* a prompt shown whether or not there are unsaved changes
ResponsesOfPrompt == { "Yes", "No", "Cancel" }

\* the answers to askyesnocancel; the prompt is shown for unsaved changes only
Responses == IF is_saved THEN { "" } ELSE { "Yes", "No", "Cancel" }

new_file ==
  /\ Idle
  /\ \E response \in Responses :
       IF response = "Cancel"
       THEN /\ choice' = response
            /\ message' = ""
            /\ UNCHANGED << text_area, edit_modified, filename, is_saved,
                            current_file_type, csv_data, csv_headers,
                            editor_files, images, tags, selection >>
       ELSE \E filepath \in IF response = "Yes" THEN SaveAnswers ELSE { "" } :
              /\ choice' = IF response = "Yes" /\ filename = None
                           THEN filepath ELSE response
              /\ editor_files' = IF response = "Yes"
                                 THEN SavedFile(filepath).files
                                 ELSE editor_files
              /\ message' = IF response = "Yes"
                            THEN SavedFile(filepath).message ELSE ""
              /\ text_area' = << >>
              /\ edit_modified' = Modified(text_area, << >>)
              /\ tags' = Deleted(tags)
              /\ selection' = { }
              /\ images' = << >>
              /\ csv_data' = << >>
              /\ filename' = None
              /\ is_saved' = TRUE
              /\ current_file_type' = "text"
              /\ UNCHANGED csv_headers
  /\ handler' = "new_file"

on_closing ==
  /\ Dispatch
  /\ \E response \in Responses :
       IF response = "Cancel"
       THEN /\ choice' = response
            /\ message' = ""
            /\ UNCHANGED << dialog, filename, is_saved, editor_files >>
       ELSE \E filepath \in IF response = "Yes" THEN SaveAnswers ELSE { "" } :
              LET saved == IF response = "Yes" THEN SavedFile(filepath)
                           ELSE SavedAs("")
              IN  /\ choice' = IF response = "Yes" /\ filename = None
                               THEN filepath ELSE response
                  /\ filename' = saved.filename
                  /\ editor_files' = saved.files
                  /\ is_saved' = saved.is_saved
                  /\ message' = saved.message
                  /\ dialog' = "done"
  /\ handler' = "on_closing"
  /\ UNCHANGED << wizard_vars, text_area, edit_modified, current_file_type,
                  csv_data, csv_headers, images, tags, selection >>

\* textEditor_launch: the state main() leaves when Text Editor is chosen
InitEditor ==
  /\ dialog = "editor"
  /\ stack = << >>
  /\ recipient_names = << >>
  /\ name_input_method = ""
  /\ total_recipients = 0
  /\ name_prompt = "Please enter the name:"
  /\ names_file_location = ""
  /\ remaining = 0
  /\ entered_name = << >>
  /\ letter_body = << >>
  /\ letter_file_location = ""
  /\ is_placeholder_not_present = FALSE
  /\ output_directory = ""
  /\ position = 1
  /\ fs = [ d \in Directories |-> InitialFiles(d) ]
  /\ written = << >>
  /\ choice = "Text Editor"
  /\ message = ""
  /\ EditorConstructed

NextEditor ==
  \/ type_text
  \/ on_text_change
  \/ create_csv_table
  \/ insert_image
  \/ open_file
  \/ save_file
  \/ save_as_file
  \/ export_to_docx
  \/ new_file
  \/ on_closing

SpecEditor == InitEditor /\ [][NextEditor]_vars

(***************************************************************************)
(* Formatting.  A tag of the text widget is a named style and the set of   *)
(* characters it is on; the characters are counted from 1.  A tag that was *)
(* configured or added stays defined until it is deleted, also when it is  *)
(* on no character.  The selection is the set of characters of the sel     *)
(* tag; their tag operations raise TclError when nothing is selected.      *)
(***************************************************************************)
MaxFormats == 5

\* the ranges the user selects with the mouse or the keyboard
Selections == { { 1 }, { 2 }, { 1, 2 }, { } }

Headings == { "heading1", "heading2", "heading3" }

\* the hex values colorchooser.askcolor returns; "" is a cancelled chooser
Colors == { "#ff0000", "#0000ff" }

tag_configure(tagged, tag) ==
  [ t \in DOMAIN tagged \cup { tag } |->
      IF t \in DOMAIN tagged THEN tagged[t] ELSE { } ]

tag_add(tagged, tag, chars) ==
  [ tag_configure(tagged, tag) EXCEPT ![tag] = @ \cup chars ]

tag_remove(tagged, tag, chars) ==
  [ t \in DOMAIN tagged |-> IF t = tag THEN tagged[t] \ chars ELSE tagged[t] ]

\* the index sel.first
sel_first(sel) == CHOOSE i \in sel : \A j \in sel : i <= j

tag_names(tagged, char) == { t \in DOMAIN tagged : char \in tagged[t] }

\* a handler that adds the tag whatever the first character carries
ToggledOn(tagged, tag, sel) ==
  IF sel = { } THEN tagged ELSE tag_add(tagged, tag, sel)

\* the try block of apply_bold, apply_italic and apply_underline
Toggled(tagged, tag, sel) ==
  IF sel = { } THEN tagged
  ELSE IF tag \in tag_names(tagged, sel_first(sel))
  THEN tag_remove(tagged, tag, sel)
  ELSE tag_add(tagged, tag, sel)

\* a handler that adds the heading and removes no other
HeadedOver(tagged, heading_tag, sel) ==
  IF sel = { } THEN tagged ELSE tag_add(tagged, heading_tag, sel)

\* the try block of apply_heading
Headed(tagged, heading_tag, sel) ==
  IF sel = { } THEN tagged
  ELSE tag_add(tag_remove(tag_remove(tag_remove(tagged, "heading1", sel),
                                     "heading2", sel),
                          "heading3", sel),
               heading_tag, sel)

\* the try block of change_text_color and change_bg_color after the chooser
\* returned a color: the tag is configured before sel.first is looked up
Colored(tagged, tag_name, sel) ==
  IF sel = { } THEN tag_configure(tagged, tag_name)
  ELSE tag_add(tag_configure(tagged, tag_name), tag_name, sel)

\* the event loop takes the next event, a formatting command
Formats ==
  /\ dialog = "editor"
  /\ ~ edit_modified
  /\ handled < MaxFormats
  /\ handled' = handled + 1
  /\ message' = ""
  /\ UNCHANGED << dialog, wizard_vars, text_area, edit_modified, filename,
                  is_saved, current_file_type, csv_data, csv_headers,
                  editor_files, images >>

\* the user selects characters of the text, or clicks and selects none
select_text ==
  /\ Formats
  /\ \E sel \in Selections :
       /\ sel \subseteq 1..Len(text_area)
       /\ sel # selection
       /\ selection' = sel
  /\ handler' = "select_text"
  /\ choice' = ""
  /\ UNCHANGED tags

apply_bold ==
  /\ Formats
  /\ tags' = Toggled(tags, "bold", selection)
  /\ handler' = "apply_bold"
  /\ choice' = ""
  /\ UNCHANGED selection

apply_italic ==
  /\ Formats
  /\ tags' = Toggled(tags, "italic", selection)
  /\ handler' = "apply_italic"
  /\ choice' = ""
  /\ UNCHANGED selection

apply_underline ==
  /\ Formats
  /\ tags' = Toggled(tags, "underline", selection)
  /\ handler' = "apply_underline"
  /\ choice' = ""
  /\ UNCHANGED selection

apply_heading ==
  /\ Formats
  /\ \E heading_tag \in Headings :
       /\ tags' = Headed(tags, heading_tag, selection)
       /\ choice' = heading_tag
  /\ handler' = "apply_heading"
  /\ UNCHANGED selection

\* every tag change_font configures is configured already
change_font ==
  /\ Formats
  /\ handler' = "change_font"
  /\ choice' = ""
  /\ UNCHANGED << tags, selection >>

change_text_color ==
  /\ Formats
  /\ \E color \in Colors \cup { "" } :
       /\ tags' = IF color = "" THEN tags
                  ELSE Colored(tags, "color_" \o color, selection)
       /\ choice' = color
  /\ handler' = "change_text_color"
  /\ UNCHANGED selection

change_bg_color ==
  /\ Formats
  /\ \E color \in Colors \cup { "" } :
       /\ tags' = IF color = "" THEN tags
                  ELSE Colored(tags, "bg_" \o color, selection)
       /\ choice' = color
  /\ handler' = "change_bg_color"
  /\ UNCHANGED selection

NextFormat ==
  \/ type_text
  \/ on_text_change
  \/ select_text
  \/ apply_bold
  \/ apply_italic
  \/ apply_underline
  \/ apply_heading
  \/ change_font
  \/ change_text_color
  \/ change_bg_color
  \/ new_file
  \/ open_file

SpecFormat == InitEditor /\ [][NextFormat]_vars

(***************************************************************************)
(* Properties of letter generation.                                        *)
(***************************************************************************)
\* 0-based starts of the occurrences of the placeholder in a template; two
\* occurrences never overlap, since "[" is only the first character of it
Occurrences(template) ==
  { k \in 0..Len(template) : StartsWith(SubSeq(template, k + 1, Len(template)),
                                        Placeholder) }

\* text is the template with every placeholder, and nothing else, replaced by
\* name: position i of the template lands shifted by the placeholders that
\* end before it
IsMerged(template, name, text) ==
  LET occurrences == Occurrences(template)
      growth == Len(name) - Len(Placeholder)
      Inside(i) ==
        \E k \in occurrences : k + 1 <= i /\ i <= k + Len(Placeholder)
      Landing(i) ==
        i + Cardinality({ k \in occurrences : k + Len(Placeholder) < i }) * growth
  IN  /\ Len(text) = Len(template) + Cardinality(occurrences) * growth
      /\ \A i \in 1..Len(template) :
           ~ Inside(i) => text[Landing(i)] = template[i]
      /\ \A k \in occurrences :
           SubSeq(text, Landing(k + 1), Landing(k + 1) + Len(name) - 1) = name

GenerationSteps == { "out_prompt", "out_dir", "writing", "success" }

\* C1: every letter generate_personalized_letters writes, in list order one
\* per recipient, is the template with each occurrence of [name] replaced by
\* that recipient's name and nothing else changed
C1_LetterIsTemplateWithNames ==
  /\ Len(written) <= Len(recipient_names)
  /\ dialog = "success" => Len(written) = Len(recipient_names)
  /\ \A j \in 1..Len(written) :
       /\ written[j].recipient = recipient_names[j]
       /\ IsMerged(letter_body, written[j].recipient, written[j].content)

\* C1: all letters of a template with two placeholders have been written
C1_Witness ==
  /\ dialog = "success"
  /\ Len(written) >= 2
  /\ Cardinality(Occurrences(letter_body)) = 2
  /\ written[1].content = recipient_names[1] \o << "[" >> \o recipient_names[1]

\* C2: when generation has completed there is one letter file per recipient:
\* the files written in this run are as many as the entries of the list
C2_OneFilePerRecipient ==
  dialog = "success"
    => Cardinality({ written[j].file : j \in 1..Len(written) })
         = Len(recipient_names)

\* the template contains the placeholder somewhere
HasPlaceholder(body) == Occurrences(body) # { }

\* a letter was submitted (file opened and read, or text box continued)
LetterSubmitted ==
  \/ dialog = "letter_file" /\ choice' # "" /\ dialog' # "crashed"
  \/ dialog = "letter_text" /\ choice' = "Continue"

IsLetter(c) == IsLower(c) \/ IsUpper(c)

NotSpaceOrHyphen(c) == c \notin { " ", "-" }

\* what is left of the name without its spaces and hyphens is non-empty and
\* all letters
Acceptable(name) ==
  LET remainder == SelectSeq(name, NotSpaceOrHyphen)
  IN  /\ remainder # << >>
      /\ \A i \in 1..Len(remainder) : IsLetter(remainder[i])

\* stored is name in title case: the first letter of every run of letters is
\* upper case, the other letters are lower case, nothing else differs
IsTitleOf(stored, name) ==
  /\ Len(stored) = Len(name)
  /\ \A i \in 1..Len(name) :
       stored[i] = IF ~ IsLetter(name[i]) THEN name[i]
                   ELSE IF i = 1 \/ ~ IsLetter(name[i - 1])
                        THEN ToUpper(name[i])
                        ELSE ToLower(name[i])

S_jean_paul == << "j", "e", "a", "n", "-", "p", "a", "u", "l" >>

S_Jean_Paul == << "J", "e", "a", "n", "-", "P", "a", "u", "l" >>

\* C4: collect_names_manually accepts an entered name exactly when its
\* remainder without spaces and hyphens is non-empty and alphabetic; an
\* accepted name is appended in title case, a rejected one changes nothing
C4_NameAcceptedIffAlphabetic ==
  [][ (dialog = "name" /\ choice' = "Continue")
        => IF Acceptable(entered_name')
           THEN /\ Len(recipient_names') = Len(recipient_names) + 1
                /\ SubSeq(recipient_names', 1, Len(recipient_names)) = recipient_names
                /\ IsTitleOf(recipient_names'[Len(recipient_names')], entered_name')
           ELSE /\ recipient_names' = recipient_names
                /\ dialog' = "name" ]_vars

\* C4: jean-paul was entered and is the last name of the list as Jean-Paul
C4_Witness ==
  /\ choice = "Continue"
  /\ entered_name = S_jean_paul
  /\ recipient_names # << >>
  /\ recipient_names[Len(recipient_names)] = S_Jean_Paul

\* letters, spaces and hyphens only, and in title case
IsDisplayName(name) ==
  /\ \A i \in 1..Len(name) : IsLetter(name[i]) \/ name[i] \in { " ", "-" }
  /\ IsTitleOf(name, name)

\* C5: wherever the recipient list is used (names confirmation, generation)
\* every name of it is a validated display name
C5_NamesAreDisplayNames ==
  dialog \in { "confirm" } \cup GenerationSteps
    => \A i \in 1..Len(recipient_names) : IsDisplayName(recipient_names[i])

RECURSIVE Join(_, _)
Join(list, separator) ==
  IF Len(list) = 0 THEN << >>
  ELSE IF Len(list) = 1 THEN list[1]
  ELSE list[1] \o separator \o Join(Tail(list), separator)

\* the delimiter ", " occurs in the content
Delimited(content) ==
  \E k \in 1..(Len(content) - 1) : content[k] = "," /\ content[k + 1] = " "

\* list is the content cut at every ", ": the pieces hold no ", " and give
\* the content back when joined with ", "
IsSplitOf(list, content) ==
  /\ Len(list) >= 2
  /\ Join(list, << ",", " " >>) = content
  /\ \A i \in 1..Len(list) : ~ Delimited(list[i])

\* a readable names file was chosen in the chooser
ReadNamesFile ==
  /\ dialog = "names_file"
  /\ choice' \in NamesFiles
  /\ Disk[choice'].readable

S_Alice == << "A", "l", "i", "c", "e" >>

S_Bob == << "B", "o", "b" >>

S_Carol == << "C", "a", "r", "o", "l" >>

\* C6: a names file whose content contains ", " sets the recipient list to
\* the content split at every ", ", in file order
C6_NamesFileIsSplit ==
  [][ (ReadNamesFile /\ Delimited(Disk[choice'].content))
        => IsSplitOf(recipient_names', Disk[choice'].content) ]_vars

\* C6: the file holding Alice, Bob, Carol was read and the list is shown
C6_Witness ==
  /\ dialog = "confirm"
  /\ choice = "names3.txt"
  /\ recipient_names = << S_Alice, S_Bob, S_Carol >>

\* frames of names_text_file_processing on the stack
ProcessingFrames(stk) ==
  Cardinality({ i \in 1..Len(stk) :
                  stk[i] \in { "names_text_file_processing:1751",
                               "names_text_file_processing:1764" } })

\* frames of names_text_file_processing suspended in the restart after a read error
FailedReadFrames(stk) ==
  Cardinality({ i \in 1..Len(stk) : stk[i] = "names_text_file_processing:1764" })

\* a names file without ", " is rejected: warning, list untouched, chooser again
RejectsUndelimited ==
  (ReadNamesFile /\ ~ Delimited(Disk[choice'].content))
    => /\ recipient_names' = recipient_names
       /\ message' = "Please enter the names separated by comma."
       /\ dialog' = "names_file"
       /\ stack' = stack

\* C7 as stated: a file without ", " is rejected and the chooser shown again,
\* and names_text_file_processing returns only when a file containing ", "
\* was chosen or the user exits
C7_ReturnsOnlyWithDelimitedFile ==
  [][ /\ RejectsUndelimited
      /\ ProcessingFrames(stack') < ProcessingFrames(stack)
           => \/ ReadNamesFile /\ Delimited(Disk[choice'].content)
              \/ dialog' = "exited" ]_vars

\* C7 amended: ... or reading a chosen file failed, in which case the method
\* returns when the name collection it restarted has finished
C7_ReturnsWithDelimitedFileOrAfterReadError ==
  [][ /\ RejectsUndelimited
      /\ ProcessingFrames(stack') < ProcessingFrames(stack)
           => \/ ReadNamesFile /\ Delimited(Disk[choice'].content)
              \/ dialog' = "exited"
              \/ FailedReadFrames(stack') < FailedReadFrames(stack) ]_vars

\* C7: a file without the delimiter was just rejected and the chooser is up again
C7_Witness ==
  /\ dialog = "names_file"
  /\ choice \in { "single.txt", "comma.txt" }
  /\ message = "Please enter the names separated by comma."
  /\ Top(stack) = "names_text_file_processing:1751"

\* C8: when manual collection ends at the names confirmation, the list holds
\* exactly total_recipients names, and that count is at least 2
C8_ManualCollectsExactlyN ==
  [][ (dialog = "name" /\ dialog' = "confirm")
        => /\ total_recipients' >= 2
           /\ Len(recipient_names') = total_recipients' ]_vars

\* C8: manual collection of three names has just ended at the confirmation
C8_Witness ==
  /\ dialog = "confirm"
  /\ name_input_method = "Manual Insert"
  /\ choice = "Continue"
  /\ total_recipients = 3
  /\ Len(recipient_names) = 3

(***************************************************************************)
(* Properties of cancellation.                                             *)
(***************************************************************************)
\* the dialogs that carry an Exit button
ExitButtonSteps ==
  { "method", "count", "name", "confirm", "letter_text", "out_prompt" }

\* the file and directory choosers
ChooserSteps == { "names_file", "letter_file", "out_dir" }

\* the user pressed Exit or cancelled a chooser
Cancelled ==
  \/ dialog \in ExitButtonSteps /\ choice' = "Exit"
  \/ dialog \in ChooserSteps /\ choice' = ""

\* C9: every Exit button and every cancelled chooser of the wizard is
\* followed by the exit confirmation
C9_CancelShowsExitConfirmation ==
  [][ Cancelled => dialog' = "exit" ]_vars

\* the dialog of the step whose cancellation called the exit confirmation
CancelledStep(site) ==
  CASE site = "main:1895" -> "start"
    [] site = "name_collection:1674" -> "method"
    [] site = "ask_recipient_count:1692" -> "count"
    [] site = "collect_names_manually:1714" -> "name"
    [] site = "ask_name_file:1740" -> "names_file"
    [] site = "confirm_names_proceed:1809" -> "confirm"
    [] OTHER -> "letter_choice"

\* C10: after No on the exit confirmation the next dialog is that of the
\* step that was cancelled
C10_DeclinedExitReturnsToStep ==
  [][ (dialog = "exit" /\ choice' = "No")
        => dialog' = CancelledStep(Top(stack)) ]_vars


(***************************************************************************)
(* Properties of error handling and of the files that already existed.     *)
(***************************************************************************)
\* C11: a failing file read or write is shown as a message box and the
\* wizard goes on; no failure leaves a handler uncaught and ends the run.
C11_NoUncaughtIOFailure ==
  dialog # "crashed"

\* the letter files that were in the directories before the wizard started
ExistedBefore(d) == DOMAIN InitialFiles(d)

\* C12: generation never modifies a letter file that existed before the
\* run; every such file keeps the content it had.
C12_ExistingLettersUnchanged ==
  \A d \in Directories :
    \A f \in ExistedBefore(d) :
      /\ f \in DOMAIN fs[d]
      /\ fs[d][f] = InitialFiles(d)[f]

(***************************************************************************)
(* Properties of the confirmation of the names.                            *)
(***************************************************************************)
\* main() calls process_letter_content: its first dialog, with main's frame
\* alone below it
LetterContentStarts ==
  /\ dialog' = "letter_choice"
  /\ stack' = << "main:1905" >>

\* C16: process_letter_content is started only by the step in which the user
\* presses Continue on the dialog that shows the recipient list.
C16_LetterContentOnlyAfterContinue ==
  [][ LetterContentStarts =>
        /\ dialog = "confirm"
        /\ choice' = "Continue"
        /\ recipient_names' = recipient_names ]_vars

\* a step after which a collection begins: the input-method dialog, the
\* count dialog or the file chooser comes on screen
CollectionBegins == dialog' \in { "method", "count", "names_file" }

\* the ways a step may change the recipient list: a name typed into the name
\* dialog is appended, the names of a chosen file replace an empty list, or
\* Re-enter Names empties it
NamesChangeByCollection ==
  \/ recipient_names' = recipient_names
  \/ /\ dialog = "name"
     /\ recipient_names' = Append(recipient_names, title(entered_name'))
  \/ /\ dialog = "names_file"
     /\ recipient_names = << >>
     /\ IsSplitOf(recipient_names', Disk[choice'].content)
  \/ /\ dialog = "confirm"
     /\ choice' = "Re-enter Names"
     /\ recipient_names' = << >>

\* C17: Re-enter Names empties the list and shows the input-method dialog
\* again; the list is empty whenever a collection begins; and from then on
\* names are only added at the end or read from a file, so the list used for
\* generation holds the names collected after the last Re-enter, in order.
C17_ReenterRestartsFromScratch ==
  [][ /\ CollectionBegins => recipient_names' = << >>
      /\ NamesChangeByCollection
      /\ (dialog = "confirm" /\ choice' = "Re-enter Names")
           => (recipient_names' = << >> /\ dialog' = "method") ]_vars

\* names were re-entered by hand and are shown for confirmation again
C17_Witness ==
  /\ dialog = "confirm"
  /\ \E i \in 1..Len(stack) : stack[i] = "confirm_names_proceed:1805"
  /\ recipient_names = << S_Al, S_Jean_Paul >>

(***************************************************************************)
(* Properties of the end of the wizard.                                    *)
(***************************************************************************)
\* the wizard has ended: main() returned, exit() was called, or an exception
\* left main()
Ended(d) == d \in { "done", "exited", "crashed" }

\* C18: the wizard ends only by the answer Yes to an exit confirmation or
\* after letter generation has finished; no other input ends it.
C18_EndsOnlyByExitOrGeneration ==
  [][ (~ Ended(dialog) /\ Ended(dialog')) =>
        \/ dialog = "exit" /\ choice' = "Yes"
        \/ dialog = "success" ]_vars

(***************************************************************************)
(* Properties of the editor: what saving writes and opening reads.         *)
(***************************************************************************)
SavedSuccessfully ==
  /\ handler \in { "save_file", "save_as_file" }
  /\ message = "File saved successfully!"

\* the step reopens, without error, the file the last step saved
ReopensSavedFile ==
  /\ SavedSuccessfully
  /\ handler' = "open_file"
  /\ choice' = filename
  /\ message' = ""

\* C13: the buffer saved as plain text to a text file and reopened from that
\* file is the buffer that was saved.
C13_TextRoundTrip ==
  [][ (ReopensSavedFile /\ current_file_type = "text" /\ ext(filename) = ".txt")
        => text_area' = text_area ]_vars

\* the last step opened the CSV file of filename without an error
OpenedCsv ==
  /\ handler = "open_file"
  /\ choice = filename
  /\ ext(filename) = ".csv"
  /\ message = ""

\* the rows a file holds, as a CSV reader reads them
RowsOf(file) == IF file.kind = "text" THEN csv_reader(file.content) ELSE << >>

\* C14: save_file right after a CSV file was opened leaves in the file the
\* rows that were read from it: the header row and every data row, in order
\* and cell by cell.
C14_CsvRoundTrip ==
  [][ (OpenedCsv /\ handler' = "save_file") =>
        /\ editor_files'[filename].kind = "text"
        /\ RowsOf(editor_files'[filename]) = RowsOf(editor_files[filename]) ]_vars

\* a line of the text starts at position a: at the start of the text or
\* right after a line feed
LineStarts(text) ==
  { a \in 1..(Len(text) + 1) : a = 1 \/ text[a - 1] = LF }

\* the line that starts at a runs up to the next line feed or the end
LineAt(text, a) ==
  LET stops == { j \in a..(Len(text) + 1) : j = Len(text) + 1 \/ text[j] = LF }
      stop == CHOOSE j \in stops : \A k \in stops : j <= k
  IN  SubSeq(text, a, stop - 1)

\* empty or whitespace-only
IsBlank(line) == \A i \in 1..Len(line) : line[i] \in { " ", "\t", CR }

\* paragraphs are the non-blank lines of the text, one each, in their order
AreNonBlankLinesOf(paragraphs, text) ==
  LET starts == { a \in LineStarts(text) : ~ IsBlank(LineAt(text, a)) }
  IN  /\ Len(paragraphs) = Cardinality(starts)
      /\ \A a \in starts :
           paragraphs[Cardinality({ b \in starts : b < a }) + 1] = LineAt(text, a)

\* the step runs save_as_docx for path and the document is saved
SavesAsDocx(path) ==
  /\ path \in EditorPaths \ Locked
  /\ \/ handler' = "export_to_docx" /\ choice' = path
     \/ /\ handler' \in { "save_file", "save_as_file" }
        /\ current_file_type = "docx"
        /\ filename' = path
        /\ message' = "File saved successfully!"

\* C15: the document save_as_docx writes holds one paragraph for every
\* non-blank line of the buffer, in the order of the lines, and none for an
\* empty or whitespace-only line.
C15_DocxParagraphsAreNonBlankLines ==
  [][ \A path \in EditorPaths :
        SavesAsDocx(path) =>
          /\ editor_files'[path].kind = "docx"
          /\ AreNonBlankLinesOf(editor_files'[path].content, text_area) ]_vars

\* a text with an empty and a whitespace-only line was exported
C15_Witness ==
  /\ handler = "export_to_docx"
  /\ choice = "report.docx"
  /\ text_area = << "a", LF, " ", LF, LF, "b" >>
  /\ editor_files["report.docx"] = DocxFile(<< << "a" >>, << "b" >> >>)

\* a PDF is open: the file name is the path of the PDF and the PDF view is
\* the active one
PdfOpened ==
  /\ filename # None
  /\ ext(filename) = ".pdf"
  /\ current_file_type = "pdf"

\* C19: while a PDF is open no step writes to the path of the PDF.
C19_OpenedPdfIsNotWritten ==
  [][ PdfOpened => editor_files'[filename] = editor_files[filename] ]_vars

\* the file holds the document in the format of the extension of its path
InFormatOfExtension(file, path) ==
  CASE ext(path) = ".docx" ->
         /\ file.kind = "docx"
         /\ AreNonBlankLinesOf(file.content, text_area)
    [] ext(path) = ".csv" ->
         /\ file.kind = "text"
         /\ RowsOf(file) = csv_data
    [] OTHER ->
         /\ file.kind = "text"
         /\ TextRead(file.content) = TextRead(text_area)

\* C20: the file save_as_file writes has the format of the extension of the
\* chosen path, whatever the file type of the editor is.
C20_SaveAsWritesFormatOfExtension ==
  [][ (handler' = "save_as_file" /\ choice' \in SavePaths \ Locked) =>
        InFormatOfExtension(editor_files'[choice'], choice') ]_vars

(***************************************************************************)
(* Properties of the size of the recipient list.                           *)
(***************************************************************************)
\* C25: whenever generate_personalized_letters runs, the recipient list
\* holds at least two names.
C25_GenerationHasTwoRecipients ==
  dialog \in GenerationSteps => Len(recipient_names) >= 2

(***************************************************************************)
(* Properties of the copies of the letter generation.                      *)
(***************************************************************************)
\* a copy, started on the files the directory held before the run, came to
\* its end and left the files the directory holds now
LeavesTheseFiles(result) ==
  /\ result.exception = ""
  /\ result.files = fs[output_directory]

\* C30: when generate_personalized_letters of EduMerge.py has completed, the
\* copies of merger.py and textEditor.py, run with the same recipients and the
\* same directory content, complete as well and leave the same letter files
\* with the same contents.
C30_CopiesLeaveSameLetters ==
  dialog = "success" =>
    /\ LeavesTheseFiles(merger_generate_personalized_letters(
                          InitialFiles(output_directory), recipient_names))
    /\ LeavesTheseFiles(textEditor_generate_personalized_letters(
                          InitialFiles(output_directory), recipient_names))

(***************************************************************************)
(* Properties of new_file, open_file, save_file and on_closing.            *)
(***************************************************************************)
\* the step is the handler named, run to its end by the event loop
Handles(name) == handler' = name /\ handled' # handled

\* C21: when new_file has completed without being cancelled, the text is
\* empty, there is no file name, the document is saved, its type is text, and
\* the images, the CSV data and the CSV headers are empty.
C21_NewFileResetsDocumentState ==
  [][ (Handles("new_file") /\ choice' # "Cancel") =>
        /\ text_area' = << >>
        /\ filename' = None
        /\ is_saved'
        /\ current_file_type' = "text"
        /\ images' = << >>
        /\ csv_data' = << >>
        /\ csv_headers' = << >> ]_vars

\* the file at path holds what the save writes of the document
IsWritten(path) ==
  /\ path \notin Locked
  /\ editor_files'[path] = FileWritten

\* C26: save_file marks the document saved and shows its success message
\* only when the content was written; when the write fails, is_saved keeps
\* its value and only the error message is shown.  export_to_docx shows its
\* success message only when the document was written.
C26_SuccessOnlyWhenWritten ==
  [][ /\ (Handles("save_file") /\ message' = "File saved successfully!") =>
           is_saved' /\ IsWritten(filename')
      /\ (Handles("save_file") /\ filename' \in Locked) =>
           is_saved' = is_saved /\ message' = "Could not save file"
      /\ (Handles("export_to_docx")
            /\ message' = "Exported to DOCX successfully!") =>
           /\ choice' \notin Locked
           /\ editor_files'[choice'] = DocxFile(ParagraphsAdded(text_area)) ]_vars

\* open_file showed the error of a file it could not load
FailsToLoad == Handles("open_file") /\ message' # ""

\* C27: when open_file fails to load the chosen file, the file name, the
\* file type, is_saved and the text keep the values they had.
C27_FailedOpenChangesNothing ==
  [][ FailsToLoad =>
        /\ filename' = filename
        /\ current_file_type' = current_file_type
        /\ is_saved' = is_saved
        /\ text_area' = text_area ]_vars

\* the save prompt of the handler was shown and answered Yes
AnswersYes(name) ==
  /\ Handles(name)
  /\ ~ is_saved
  /\ choice' \notin { "No", "Cancel" }

\* the save the Yes answer starts wrote the document to its file
SaveHappened ==
  LET path == IF filename # None THEN filename ELSE choice'
  IN  path # "" /\ IsWritten(path)

\* C28: when the save prompt of new_file or on_closing is answered Yes and
\* the save does not happen, the text is kept and the window stays open.
C28_DiscardsOnlyAfterSave ==
  [][ /\ (AnswersYes("new_file") /\ ~ SaveHappened) =>
           text_area' = text_area /\ dialog' = "editor"
      /\ (AnswersYes("on_closing") /\ ~ SaveHappened) =>
           text_area' = text_area /\ dialog' = "editor" ]_vars

\* the step is new_file or on_closing
AsksToSave == Handles("new_file") \/ Handles("on_closing")

\* C29: the Cancel answer to the save prompt of new_file or on_closing
\* leaves the text, the file name, is_saved, the file type, the CSV data, the
\* images and the files unchanged and the window open; and without unsaved
\* changes neither of the two shows the prompt.
C29_CancelChangesNothing ==
  [][ /\ (AsksToSave /\ choice' = "Cancel") =>
           /\ UNCHANGED << text_area, filename, is_saved, current_file_type,
                           csv_data, csv_headers, images, editor_files >>
           /\ dialog' = "editor"
      /\ (AsksToSave /\ is_saved) => choice' = "" ]_vars

\* new_file was cancelled with an inserted image and unsaved changes
C29_Witness ==
  /\ handler = "new_file"
  /\ choice = "Cancel"
  /\ images # << >>
  /\ text_area # << >>
  /\ ~ is_saved
  /\ dialog = "editor"

(***************************************************************************)
(* Properties of the formatting commands.                                  *)
(***************************************************************************)
\* the heading styles the character carries
HeadingsOf(tagged, char) == tag_names(tagged, char) \cap Headings

\* C22: no character ever carries more than one of the heading styles, and
\* when apply_heading has run on a selection that is not empty, every
\* selected character carries the chosen heading and no other.
C22_OneHeadingPerCharacter ==
  [][ /\ \A char \in 1..Len(text_area') :
           Cardinality(HeadingsOf(tags', char)) <= 1
      /\ (Handles("apply_heading") /\ selection # { }) =>
           \A char \in selection : HeadingsOf(tags', char) = { choice' } ]_vars

\* a heading was applied to a selected character that carried another
\* heading, which a character not selected carries still
C22_Witness ==
  /\ handler = "apply_heading"
  /\ selection # { }
  /\ \A char \in selection : HeadingsOf(tags, char) = { choice }
  /\ \E char \in 1..Len(text_area) :
       /\ char \notin selection
       /\ HeadingsOf(tags, char) \notin { { }, { choice } }

\* the tags apply_bold, apply_italic and apply_underline toggle
Toggles == { "bold", "italic", "underline" }

\* the step is the handler that toggles the tag
Applies(tag) == Handles("apply_" \o tag)

\* C23 as stated: when a toggle has been applied to the selection, applying
\* it once more leaves every character as it was before the first
\* application, whatever characters carried the tag; without a selection
\* nothing changes.
C23_TwiceRestoresAnyRanges ==
  [][ \A tag \in Toggles :
        Applies(tag) =>
          /\ Toggled(tags', tag, selection) = tags
          /\ selection = { } => tags' = tags ]_vars

\* the selected characters all carry the tag, or none of them does
Uniform(tag) == tags[tag] \cap selection \in { { }, selection }

\* C23: when a toggle has been applied to a selection of which every
\* character carried the tag or none did, applying it once more leaves
\* every character as it was before the first application; on any other
\* selection the two applications leave the tag on all the selected
\* characters when the first one carried it and on none when it did not;
\* without a selection nothing changes.
C23_TwiceRestoresUniformSelection ==
  [][ \A tag \in Toggles :
        Applies(tag) =>
          /\ Uniform(tag) => Toggled(tags', tag, selection) = tags
          /\ (selection # { } /\ ~ Uniform(tag)) =>
               Toggled(tags', tag, selection) =
                 IF sel_first(selection) \in tags[tag]
                 THEN tag_add(tags, tag, selection)
                 ELSE tag_remove(tags, tag, selection)
          /\ selection = { } => tags' = tags ]_vars

\* bold was applied to the two selected characters, which were not bold
C23_Witness ==
  /\ handler = "apply_bold"
  /\ selection = { 1, 2 }
  /\ tags["bold"] = { 1, 2 }

\* the styles made for colors
ColorStyles(tagged) == DOMAIN tagged \ ConfiguredTags

\* the step is a color command whose chooser returned the color
Requests(name, color) == Handles(name) /\ choice' = color

\* a color command was given the color before: its style is never removed
RequestedBefore(color) ==
  \/ "color_" \o color \in DOMAIN tags
  \/ "bg_" \o color \in DOMAIN tags

\* C24 as stated: there is one style per color value; requesting a color
\* that was requested before makes no further style, and no step removes a
\* color style.
C24_OneStylePerColorValue ==
  [][ /\ ColorStyles(tags) \subseteq ColorStyles(tags')
      /\ \A color \in Colors :
           ( /\ \/ Requests("change_text_color", color)
                \/ Requests("change_bg_color", color)
             /\ RequestedBefore(color) ) =>
             ColorStyles(tags') = ColorStyles(tags) ]_vars

\* C24: there is one style per color value and command, color_<value> for
\* change_text_color and bg_<value> for change_bg_color; requesting a color
\* makes this style when it is not there and no other, a cancelled chooser
\* makes none, and no step removes a color style.
C24_OneStylePerColorAndCommand ==
  [][ /\ ColorStyles(tags) \subseteq ColorStyles(tags')
      /\ \A color \in Colors :
           /\ Requests("change_text_color", color) =>
                ColorStyles(tags') = ColorStyles(tags) \cup { "color_" \o color }
           /\ Requests("change_bg_color", color) =>
                ColorStyles(tags') = ColorStyles(tags) \cup { "bg_" \o color }
      /\ (Requests("change_text_color", "") \/ Requests("change_bg_color", "")) =>
           tags' = tags ]_vars

\* the text color was requested for the second character when the first
\* carried the style of the same color already
C24_Witness ==
  /\ handler = "change_text_color"
  /\ choice = "#ff0000"
  /\ selection = { 2 }
  /\ "color_#ff0000" \in DOMAIN tags
  /\ tags["color_#ff0000"] = { 1, 2 }

=============================================================================
